---- MODULE Spec2Model ----
(***************************************************************************)
(* Google Maps scraper (src/main.py): the URL discovery loop, the          *)
(* per-listing extraction loop with its cooperative stop flag, and the     *)
(* pure normalisation helpers (address parser, weekly-hours parser,        *)
(* record extractor).                                                      *)
(*                                                                         *)
(* Text is modelled as a sequence of one-character strings, so that        *)
(* strip, split, substring search and the regular expressions of the       *)
(* source are computed, not assumed.  Python's None is the value None.     *)
(***************************************************************************)
EXTENDS Integers, Sequences, FiniteSets, TLC

VARIABLES
    pc,             \* position of the script run (start handler + scrape_places_streamlit)
    stop,           \* st.session_state.stop
    max_listings,   \* sidebar number input, 0 = unlimited
    user_input,     \* sidebar text input
    listing_urls,   \* listing_urls of scrape_places_streamlit
    no_new_rounds,  \* no_new_rounds of scrape_places_streamlit
    idx,            \* enumerate index of the per-listing loop
    places,         \* places of scrape_places_streamlit
    last_results,   \* st.session_state["last_results"] (None while absent)
    returned,       \* the places value returned to the start handler (None before)
    shown,          \* the table rendered by show_results (None while none is rendered)
    error,          \* TRUE once st.error("Scraping failed") is rendered
    logs,           \* the kinds of messages written by log / ui_log
    pages,          \* history: successful next-page moves so far
    seen,           \* history: unique listing references presented by the feed, first-seen order
    observed,       \* history: where the run read the stop flag as true, and with how many records
    pressed,        \* history: TRUE once Stop was pressed after Start
    arg,            \* input of the pure function under check
    res,            \* its output
    fpc             \* "in" before the function is applied, "out" after, "off" in a run

runVars == <<pc, stop, max_listings, user_input, listing_urls, no_new_rounds, idx,
             places, last_results, returned, shown, error, logs, pages, seen,
             observed, pressed>>
funVars == <<arg, res, fpc>>
vars == <<pc, stop, max_listings, user_input, listing_urls, no_new_rounds, idx,
          places, last_results, returned, shown, error, logs, pages, seen,
          observed, pressed, arg, res, fpc>>

(***************************************************************************)
(* Bounds of the model                                                     *)
(***************************************************************************)
MaxAddrWords == 5
MaxHoursWords == 3
MaxRows == 2
MaxListings == 2
NumRefs == 3
MaxCards == 2
MaxPages == 1

(***************************************************************************)
(* Text helpers (Python str methods and re primitives)                     *)
(***************************************************************************)
None == <<"None">>
Dash == <<"-">>
NonAsciiChar == "U+00E9"
EnDash == "U+2013"

Whitespace == {" "}
Digits == {"0", "1", "2", "3", "4", "5", "6", "7", "8", "9"}
Upper == <<"A", "B", "C", "D", "E", "F", "G", "H", "I", "J", "K", "L", "M",
           "N", "O", "P", "Q", "R", "S", "T", "U", "V", "W", "X", "Y", "Z">>
Lowr == <<"a", "b", "c", "d", "e", "f", "g", "h", "i", "j", "k", "l", "m",
          "n", "o", "p", "q", "r", "s", "t", "u", "v", "w", "x", "y", "z">>
Letters == {Upper[i] : i \in 1..26} \cup {Lowr[i] : i \in 1..26}
WordChars == Letters \cup Digits \cup {"_"}
NonAscii == {NonAsciiChar, EnDash}

Min(S) == CHOOSE x \in S : \A y \in S : x <= y
Max(S) == CHOOSE x \in S : \A y \in S : x >= y

OrEmpty(x) == IF x = None THEN <<>> ELSE x

LowerChar(c) ==
    IF \E i \in 1..26 : Upper[i] = c
    THEN Lowr[CHOOSE i \in 1..26 : Upper[i] = c]
    ELSE c

Lower(s) == [i \in 1..Len(s) |-> LowerChar(s[i])]

RECURSIVE LStripSet(_, _)
LStripSet(s, cs) ==
    IF s # <<>> /\ Head(s) \in cs THEN LStripSet(Tail(s), cs) ELSE s

RECURSIVE RStripSet(_, _)
RStripSet(s, cs) ==
    IF s # <<>> /\ s[Len(s)] \in cs
    THEN RStripSet(SubSeq(s, 1, Len(s) - 1), cs)
    ELSE s

StripSet(s, cs) == RStripSet(LStripSet(s, cs), cs)

Strip(s) == StripSet(s, Whitespace)

StartsWith(s, p) == Len(s) >= Len(p) /\ SubSeq(s, 1, Len(p)) = p

MatchAt(s, i, sub) ==
    /\ i >= 1
    /\ i + Len(sub) - 1 <= Len(s)
    /\ SubSeq(s, i, i + Len(sub) - 1) = sub

Contains(s, sub) == \E i \in 1..(Len(s) + 1) : MatchAt(s, i, sub)

HasDigit(s) == \E i \in 1..Len(s) : s[i] \in Digits

RECURSIVE Concat(_)
Concat(ss) == IF ss = <<>> THEN <<>> ELSE Head(ss) \o Concat(Tail(ss))

\* s.split(c) for a one-character separator: never returns an empty list
RECURSIVE SplitChar(_, _)
SplitChar(s, c) ==
    IF \A i \in 1..Len(s) : s[i] # c
    THEN <<s>>
    ELSE LET k == Min({i \in 1..Len(s) : s[i] = c})
         IN  <<SubSeq(s, 1, k - 1)>> \o SplitChar(SubSeq(s, k + 1, Len(s)), c)

\* re.sub(re.escape(sub), '', s): every non-overlapping occurrence, left to right
RECURSIVE RemoveAll(_, _)
RemoveAll(s, sub) ==
    IF sub = <<>> \/ ~Contains(s, sub)
    THEN s
    ELSE LET k == Min({i \in 1..Len(s) : MatchAt(s, i, sub)})
         IN  SubSeq(s, 1, k - 1) \o RemoveAll(SubSeq(s, k + Len(sub), Len(s)), sub)

(***************************************************************************)
(* parse_address_parts                                                     *)
(***************************************************************************)
\* re.sub(r'[^\x00-\x7F]+', '', address or "").strip()
CleanAddress(address) ==
    Strip(SelectSeq(OrEmpty(address), LAMBDA c : c \notin NonAscii))

\* [p.strip() for p in cleaned.split(',') if p.strip()]
AddressParts(address) ==
    LET raw == SplitChar(CleanAddress(address), ",")
    IN  SelectSeq([i \in 1..Len(raw) |-> Strip(raw[i])], LAMBDA p : p # <<>>)

IsWordAt(s, k) == k >= 1 /\ k <= Len(s) /\ s[k] \in WordChars

\* \b between positions p-1 and p
WordBoundary(s, p) == IsWordAt(s, p - 1) # IsWordAt(s, p)

\* the choices of [A-Z]{1,2}, [A-Z0-9]? and \s? in the order the matcher tries them
PostcodeShapes ==
    << <<2, 1, 1>>, <<2, 1, 0>>, <<2, 0, 1>>, <<2, 0, 0>>,
       <<1, 1, 1>>, <<1, 1, 0>>, <<1, 0, 1>>, <<1, 0, 0>> >>

PostcodeLen(sh) == sh[1] + 1 + sh[2] + sh[3] + 1 + 2

\* [A-Z]{1,2}\d[A-Z0-9]?\s?\d[A-Z]{2} at i (IGNORECASE), closed by \b
PostcodeAt(s, i, sh) ==
    LET n == PostcodeLen(sh)
        d1 == i + sh[1]
        a == d1 + 1
        w == a + sh[2]
        d2 == w + sh[3]
    IN  /\ i + n - 1 <= Len(s)
        /\ \A k \in i..(d1 - 1) : s[k] \in Letters
        /\ s[d1] \in Digits
        /\ sh[2] = 1 => s[a] \in Letters \cup Digits
        /\ sh[3] = 1 => s[w] \in Whitespace
        /\ s[d2] \in Digits
        /\ s[d2 + 1] \in Letters
        /\ s[d2 + 2] \in Letters
        /\ WordBoundary(s, i + n)

\* \d{4,6} at i, closed by \b
DigitZipAt(s, i, n) ==
    /\ i + n - 1 <= Len(s)
    /\ \A k \in i..(i + n - 1) : s[k] \in Digits
    /\ WordBoundary(s, i + n)

\* length of the match of \b(postcode|\d{4,6})\b that starts at i, 0 when none
ZipLenAt(s, i) ==
    IF ~WordBoundary(s, i) THEN 0
    ELSE LET uk == {k \in 1..8 : PostcodeAt(s, i, PostcodeShapes[k])}
             dg == {n \in 4..6 : DigitZipAt(s, i, n)}
         IN  IF uk # {} THEN PostcodeLen(PostcodeShapes[Min(uk)])
             ELSE IF dg # {} THEN Max(dg)
             ELSE 0

\* re.search(...): group(1) of the leftmost match, None when there is none
ZipSearch(target) ==
    LET ps == {i \in 1..Len(target) : ZipLenAt(target, i) > 0}
    IN  IF ps = {} THEN None
        ELSE SubSeq(target, Min(ps), Min(ps) + ZipLenAt(target, Min(ps)) - 1)

CountryDetected_NeedsThree(parts) ==
    Len(parts) >= 3 /\ ~HasDigit(parts[Len(parts)])

\* len(parts) >= 2 and not re.search(r'\d', parts[-1])
CountryDetected(parts) ==
    Len(parts) >= 2 /\ ~HasDigit(parts[Len(parts)])

AddressTarget(parts) ==
    IF CountryDetected(parts) THEN parts[Len(parts) - 1] ELSE parts[Len(parts)]

DashIfEmpty(s) == IF s # <<>> THEN s ELSE Dash

parse_address_parts(address) ==
    LET parts == AddressParts(address)
    IN  IF parts = <<>>
        THEN [city |-> Dash, zip_code |-> Dash, country |-> Dash]
        ELSE LET country == IF CountryDetected(parts) THEN parts[Len(parts)] ELSE Dash
                 target == AddressTarget(parts)
                 m == ZipSearch(target)
                 zip_code == IF m # None THEN Strip(m) ELSE Dash
                 city == IF m # None
                         THEN Strip(StripSet(RemoveAll(target, zip_code), {",", " "}))
                         ELSE Strip(target)
             IN  [city |-> DashIfEmpty(city),
                  zip_code |-> DashIfEmpty(zip_code),
                  country |-> DashIfEmpty(country)]

\* addresses: up to MaxAddrWords words of the lexicon, concatenated
AddrLexicon ==
    { <<"K">>, <<"7", "5", "4", "0">>, <<"W", "1", " ", "2", "A", "B">>,
      <<",">>, <<" ">>, <<NonAsciiChar>>, <<"5">> }

WordSeqs(lex, n) == UNION {[1..k -> lex] : k \in 0..n}

AddrInputs == {Concat(ws) : ws \in WordSeqs(AddrLexicon, MaxAddrWords)} \cup {None}

(***************************************************************************)
(* Specification of the address parser: Init draws the address, the one    *)
(* action applies parse_address_parts.                                     *)
(***************************************************************************)
RunIdle ==
    /\ pc = "off"
    /\ stop = FALSE
    /\ max_listings = 0
    /\ user_input = <<>>
    /\ listing_urls = <<>>
    /\ no_new_rounds = 0
    /\ idx = 0
    /\ places = <<>>
    /\ last_results = <<>>
    /\ returned = <<>>
    /\ shown = <<>>
    /\ error = FALSE
    /\ logs = {}
    /\ pages = 0
    /\ seen = <<>>
    /\ observed = <<>>
    /\ pressed = FALSE

InitAddr ==
    /\ RunIdle
    /\ fpc = "in"
    /\ arg \in AddrInputs
    /\ res = None

ApplyParseAddress ==
    /\ fpc = "in"
    /\ res' = parse_address_parts(arg)
    /\ fpc' = "out"
    /\ UNCHANGED <<arg, pc, stop, max_listings, user_input, listing_urls,
                   no_new_rounds, idx, places, last_results, returned, shown,
                   error, logs, pages, seen, observed, pressed>>

NextAddr == ApplyParseAddress

SpecAddr == InitAddr /\ [][NextAddr]_vars

\* a is b with some characters left out
RECURSIVE IsScattered(_, _)
IsScattered(a, b) ==
    IF a = <<>> THEN TRUE
    ELSE IF b = <<>> THEN FALSE
    ELSE IF Head(a) = Head(b) THEN IsScattered(Tail(a), Tail(b))
    ELSE IsScattered(a, Tail(b))

\* C10: when the comma-split, trimmed, non-empty parts of the address (after
\* non-ASCII removal) number at least 2 and the last part has no digit,
\* parse_address_parts returns the last part as country and derives city and
\* zip from the second-to-last part (no zip: the city is that part; a zip: it
\* is a substring of that part and the city is what is left of the part);
\* for empty input (None or "") it returns ("-", "-", "-").
C10_CountryIsLastPart ==
    fpc = "out" =>
        LET parts == AddressParts(arg)
            n == Len(parts)
        IN  /\ OrEmpty(arg) = <<>> =>
                res = [city |-> Dash, zip_code |-> Dash, country |-> Dash]
            /\ (n >= 2 /\ ~HasDigit(parts[n])) =>
                /\ res.country = parts[n]
                /\ \/ res.zip_code = Dash /\ res.city = parts[n - 1]
                   \/ /\ res.zip_code # Dash
                      /\ Contains(parts[n - 1], res.zip_code)
                      /\ res.city = Dash \/ IsScattered(res.city, parts[n - 1])
                      /\ Len(res.city) <= Len(parts[n - 1]) - Len(res.zip_code)
                           \/ res.city = Dash

\* an address "city zip, country" was parsed into three distinct fields
C10_Witness ==
    /\ fpc = "out"
    /\ Len(AddressParts(arg)) >= 2
    /\ ~HasDigit(AddressParts(arg)[Len(AddressParts(arg))])
    /\ res.country = <<"K">>
    /\ res.zip_code = <<"7", "5", "4", "0">>
    /\ res.city = <<"K">>

(***************************************************************************)
(* Place dataclass                                                         *)
(***************************************************************************)
Raise == <<"Raise">>
FloatZero == <<"float", <<"0", ".", "0">>>>

\* Place(): the dataclass defaults
NewPlace ==
    [s_no |-> 0, name |-> <<>>, address |-> <<>>, website |-> <<>>,
     phone_number |-> <<>>, reviews_count |-> None, reviews_average |-> None,
     category |-> <<>>, latitude |-> FloatZero, longitude |-> FloatZero,
     city |-> <<>>, zip_code |-> <<>>, country |-> <<>>,
     monday_hours |-> <<>>, tuesday_hours |-> <<>>, wednesday_hours |-> <<>>,
     thursday_hours |-> <<>>, friday_hours |-> <<>>, saturday_hours |-> <<>>,
     sunday_hours |-> <<>>, instagram_url |-> <<>>, facebook_url |-> <<>>,
     linkedin_url |-> <<>>, x_url |-> <<>>, listing_url |-> <<>>,
     source |-> <<>>]

\* the fields declared str
StringFields ==
    {"name", "address", "website", "phone_number", "category", "city",
     "zip_code", "country", "monday_hours", "tuesday_hours", "wednesday_hours",
     "thursday_hours", "friday_hours", "saturday_hours", "sunday_hours",
     "instagram_url", "facebook_url", "linkedin_url", "x_url", "listing_url",
     "source"}

(***************************************************************************)
(* parse_weekly_hours                                                      *)
(*                                                                         *)
(* The hours widget of the page is a record: table and fallback are the    *)
(* rows the two row locators expose, table_fails is TRUE when the          *)
(* rows.count() of line 172 raises, recount_fails is TRUE when the         *)
(* rows.count() of the for loop (line 191) raises.  A row is [day, times]: *)
(* the inner_text() of its first two cells, each a text, None or Raise.    *)
(***************************************************************************)
day_map ==
    << <<<<"m", "o", "n">>, "monday_hours">>,
       <<<<"t", "u", "e">>, "tuesday_hours">>,
       <<<<"w", "e", "d">>, "wednesday_hours">>,
       <<<<"t", "h", "u">>, "thursday_hours">>,
       <<<<"f", "r", "i">>, "friday_hours">>,
       <<<<"s", "a", "t">>, "saturday_hours">>,
       <<<<"s", "u", "n">>, "sunday_hours">> >>

DayFields == {day_map[i][2] : i \in 1..7}

\* next((d for d in day_map if d in day_text), None): index in day_map, 0 for None
DayKey(day_text) ==
    LET ks == {i \in 1..7 : Contains(day_text, day_map[i][1])}
    IN  IF ks = {} THEN 0 ELSE Min(ks)

\* length of the separator of r'–|-|to' at i, 0 when none starts there
SepLenAt(s, i) ==
    IF s[i] = EnDash \/ s[i] = "-" THEN 1
    ELSE IF MatchAt(s, i, <<"t", "o">>) THEN 2
    ELSE 0

\* re.split(r'–|-|to', s)
RECURSIVE HoursSplit(_)
HoursSplit(s) ==
    LET ps == {i \in 1..Len(s) : SepLenAt(s, i) > 0}
    IN  IF ps = {} THEN <<s>>
        ELSE LET k == Min(ps)
             IN  <<SubSeq(s, 1, k - 1)>>
                 \o HoursSplit(SubSeq(s, k + SepLenAt(s, k), Len(s)))

Open24 == <<"O", "p", "e", "n", " ", "2", "4", " ", "h", "o", "u", "r", "s">>
Closed == <<"C", "l", "o", "s", "e", "d">>
ToSep == <<" ", "t", "o", " ">>

BothTimes_Either(open_time, close_time) == open_time # <<>> \/ close_time # <<>>

\* open_time and close_time
BothTimes(open_time, close_time) == open_time # <<>> /\ close_time # <<>>

\* (open_time or "-")
BareOrDash(open_time) == IF open_time # <<>> THEN open_time ELSE Dash

\* lines 205-215: the normalised text of one row
FinalText(times_text) ==
    LET lt == Lower(times_text)
    IN  IF Contains(lt, <<"2", "4">>) /\ Contains(lt, <<"h", "o", "u", "r">>)
        THEN Open24
        ELSE IF Contains(lt, <<"c", "l", "o", "s", "e", "d">>)
        THEN Closed
        ELSE LET parts == HoursSplit(times_text)
                 open_time == Strip(parts[1])
                 close_time == IF Len(parts) > 1 THEN Strip(parts[2]) ELSE <<>>
             IN  IF BothTimes(open_time, close_time)
                 THEN open_time \o ToSep \o close_time
                 ELSE BareOrDash(open_time)

\* one iteration of the for loop (lines 192-219): a failing read skips the row
HoursRow(place, row) ==
    IF row.day = Raise \/ row.times = Raise THEN place
    ELSE LET day_text == Lower(Strip(OrEmpty(row.day)))
             times_text == Strip(OrEmpty(row.times))
             key == DayKey(day_text)
         IN  IF key = 0 THEN place
             ELSE [place EXCEPT ![day_map[key][2]] = FinalText(times_text)]

RECURSIVE HoursRows(_, _)
HoursRows(place, rows) ==
    IF rows = <<>> THEN place
    ELSE HoursRows(HoursRow(place, Head(rows)), Tail(rows))

\* lines 187-188
InitDays(place) ==
    [f \in DOMAIN place |-> IF f \in DayFields THEN Dash ELSE place[f]]

\* the place after parse_weekly_hours(page, place); no exception escapes it
parse_weekly_hours(w, place) ==
    IF w.table_fails THEN place
    ELSE LET rows == IF w.table = <<>> THEN w.fallback ELSE w.table
         IN  IF w.recount_fails THEN InitDays(place)
             ELSE HoursRows(InitDays(place), rows)

HoursLexicon ==
    { <<"9">>, <<"5">>, <<" ">>, <<"-">>, <<EnDash>>, <<"t", "o">>,
      <<"2", "4">>, <<"H", "o", "u", "r">>, Closed }

TimesInputs ==
    {Concat(ws) : ws \in WordSeqs(HoursLexicon, MaxHoursWords)} \cup {None, Raise}

DayLabels ==
    { <<"M", "o", "n", "d", "a", "y">>, <<"S", "U", "N">>,
      <<"s", "u", "n", " ", "s", "a", "t">>, <<"x">>, <<>>, None, Raise }

OneRowTables == {<<[day |-> d, times |-> t]>> : d \in DayLabels, t \in TimesInputs}

SmallRows ==
    {[day |-> d, times |-> t] :
        d \in {<<"M", "o", "n", "d", "a", "y">>, <<"S", "U", "N">>},
        t \in {<<"9", "-", "5">>, Closed, Raise}}

ManyRowTables == UNION {[1..k -> SmallRows] : k \in 2..MaxRows}

Tables == OneRowTables \cup ManyRowTables

Widget(tf, t, f, rf) ==
    [table_fails |-> tf, table |-> t, fallback |-> f, recount_fails |-> rf]

\* the widgets a page can show: the table lookup fails; the table is empty
\* and the fallback rows are read; the table has rows
IsWidget(w) ==
    \/ w = Widget(TRUE, <<>>, <<>>, FALSE)
    \/ \E f \in {<<>>} \cup Tables, r \in BOOLEAN : w = Widget(FALSE, <<>>, f, r)
    \/ \E t \in Tables, r \in BOOLEAN : w = Widget(FALSE, t, <<>>, r)

(***************************************************************************)
(* Specification of the hours parser: Init draws the widget, the one       *)
(* action applies parse_weekly_hours to a new Place.                       *)
(***************************************************************************)
InitHours ==
    /\ RunIdle
    /\ fpc = "in"
    /\ IsWidget(arg)
    /\ res = None

ApplyParseHours ==
    /\ fpc = "in"
    /\ res' = parse_weekly_hours(arg, NewPlace)
    /\ fpc' = "out"
    /\ UNCHANGED <<arg, pc, stop, max_listings, user_input, listing_urls,
                   no_new_rounds, idx, places, last_results, returned, shown,
                   error, logs, pages, seen, observed, pressed>>

NextHours == ApplyParseHours

SpecHours == InitHours /\ [][NextHours]_vars

\* "<open> to <close>" with both parts non-empty
IsRangeText(t) ==
    \E i \in 2..Len(t) : MatchAt(t, i, ToSep) /\ i + Len(ToSep) <= Len(t)

FourForms(t) == t = Dash \/ t = Closed \/ t = Open24 \/ IsRangeText(t)

\* a trimmed, non-empty text that holds none of the separators
IsBareToken(t) ==
    /\ t # <<>>
    /\ Strip(t) = t
    /\ \A i \in 1..Len(t) : SepLenAt(t, i) = 0

\* rows.count() failed before the defaults were written (line 172)
FailedBeforeDefaults(w) == w.table_fails

Absent == <<"Absent">>

\* lines 144-150: "" on absence and on any exception
extract_text(el) ==
    IF el = Raise THEN <<>>
    ELSE IF el = Absent THEN <<>>
    ELSE Strip(OrEmpty(el))

\* length of the longest run of characters of cs that starts at i
RunLen(s, i, cs) ==
    Max({n \in 0..(Len(s) - i + 1) : \A k \in i..(i + n - 1) : s[k] \in cs})

\* re.findall(r"[cs]+", s)[0], None when the list is empty
FirstRun(s, cs) ==
    LET ps == {i \in 1..Len(s) : s[i] \in cs}
    IN  IF ps = {} THEN None
        ELSE SubSeq(s, Min(ps), Min(ps) + RunLen(s, Min(ps), cs) - 1)

\* whether float(t) succeeds, for t over digits, "." and "-"
ValidFloatText(t) ==
    LET body == IF t # <<>> /\ Head(t) = "-" THEN Tail(t) ELSE t
    IN  /\ \A i \in 1..Len(body) : body[i] # "-"
        /\ Cardinality({i \in 1..Len(body) : body[i] = "."}) <= 1
        /\ \E i \in 1..Len(body) : body[i] \in Digits

FloatOf(t) == <<"float", t>>

\* int(t.replace(",", "")): Raise when no digit is left
IntOf(t) ==
    LET ds == SelectSeq(t, LAMBDA c : c # ",")
    IN  IF ds = <<>> THEN Raise
        ELSE <<"int", IF LStripSet(ds, {"0"}) = <<>> THEN <<"0">> ELSE LStripSet(ds, {"0"})>>

\* lines 257-263
RatingOf(el) ==
    IF el = Raise \/ el = Absent THEN None
    ELSE LET nums == FirstRun(OrEmpty(el), Digits \cup {"."})
         IN  IF nums = None THEN None
             ELSE IF ValidFloatText(nums) THEN FloatOf(nums)
             ELSE None

\* lines 264-270
ReviewCountOf(el) ==
    IF el = Raise \/ el = Absent THEN None
    ELSE LET digits == FirstRun(OrEmpty(el), Digits \cup {","})
         IN  IF digits = None THEN None
             ELSE IF IntOf(digits) = Raise THEN None
             ELSE IntOf(digits)

Https == <<"h", "t", "t", "p", "s", ":", "/", "/">>
Http == <<"h", "t", "t", "p">>

\* lines 271-277
WebsiteOf(el) ==
    IF el = Raise \/ el = Absent THEN <<>>
    ELSE LET website_url == OrEmpty(el)
             full == IF website_url # <<>> /\ ~StartsWith(website_url, Http)
                     THEN Https \o LStripSet(website_url, {"/"})
                     ELSE website_url
         IN  Strip(full)

CoordChars == Digits \cup {".", "-"}

\* the two groups of  <prefix>([0-9.-]+)<mid>([0-9.-]+)  matched at i, None when no match
CoordGroupsAt(s, i, prefix, mid) ==
    IF ~MatchAt(s, i, prefix) THEN None
    ELSE LET a == i + Len(prefix)
             n1 == RunLen(s, a, CoordChars)
             b == a + n1 + Len(mid)
             n2 == RunLen(s, b, CoordChars)
         IN  IF n1 >= 1 /\ MatchAt(s, a + n1, mid) /\ n2 >= 1
             THEN <<SubSeq(s, a, a + n1 - 1), SubSeq(s, b, b + n2 - 1)>>
             ELSE None

\* re.search of such a pattern: the groups of the leftmost match
CoordSearch(s, prefix, mid) ==
    LET ps == {i \in 1..Len(s) : CoordGroupsAt(s, i, prefix, mid) # None}
    IN  IF ps = {} THEN None ELSE CoordGroupsAt(s, Min(ps), prefix, mid)

\* lines 279-295: <<latitude, longitude>>
CoordinatesOf(listing_url) ==
    LET m1 == CoordSearch(listing_url, <<"@">>, <<",">>)
        m2 == CoordSearch(listing_url, <<"!", "3", "d">>, <<"!", "4", "d">>)
        m == IF m1 # None THEN m1 ELSE m2
    IN  IF m = None THEN <<FloatZero, FloatZero>>
        ELSE IF ValidFloatText(m[1]) /\ ValidFloatText(m[2])
        THEN <<FloatOf(m[1]), FloatOf(m[2])>>
        ELSE <<FloatZero, FloatZero>>

Networks == {"instagram_url", "facebook_url", "linkedin_url", "x_url"}

\* the first URL of a network that the patterns of lines 234-240 find in the html
SocialUrl(net) ==
    Https \o (CASE net = "instagram_url" -> <<"i", "g", ".", "c", "o", "m", "/", "a">>
                [] net = "facebook_url" -> <<"f", "b", ".", "c", "o", "m", "/", "a">>
                [] net = "linkedin_url" -> <<"l", "i", ".", "c", "o", "m", "/", "a">>
                [] OTHER -> <<"x", ".", "c", "o", "m", "/", "a">>)

\* lines 225-242; fetch is [kind, found]: kind is "raise" (requests.get raised),
\* "status" (a status other than 200) or "ok", found the networks with a match
extract_social_links(website_url, fetch, place) ==
    IF website_url = <<>> THEN place
    ELSE IF fetch.kind # "ok" THEN place
    ELSE [f \in DOMAIN place |->
            IF f \in fetch.found THEN SocialUrl(f) ELSE place[f]]

SerialNo_ZeroBased(index) == index - 1

\* line 246: place.s_no = index
SerialNo(index) == index

Normalize_Skip(place) == place

\* lines 308-309: every str field that is blank becomes "-"
Normalize(place) ==
    [f \in DOMAIN place |->
        IF f \in StringFields /\ Strip(place[f]) = <<>> THEN Dash ELSE place[f]]

\* lines 253-256: the four text lookups
TextLookups(page) ==
    [name |-> extract_text(page.name),
     address |-> extract_text(page.address),
     phone |-> extract_text(page.phone),
     category |-> extract_text(page.category)]

\* lines 297-300
AddressFields(address) ==
    IF address # <<>>
    THEN parse_address_parts(address)
    ELSE [city |-> Dash, zip_code |-> Dash, country |-> Dash]

\* lines 245-301: the place before the hours, the social links and the normalisation
FillPlace(t, coords, parsed, page, source, index, listing_url) ==
    [NewPlace EXCEPT
        !.s_no = SerialNo(index), !.source = source, !.listing_url = listing_url,
        !.name = t.name, !.address = t.address, !.phone_number = t.phone,
        !.category = t.category,
        !.reviews_average = RatingOf(page.rating),
        !.reviews_count = ReviewCountOf(page.reviews),
        !.website = WebsiteOf(page.website),
        !.latitude = coords[1], !.longitude = coords[2],
        !.city = parsed.city, !.zip_code = parsed.zip_code,
        !.country = parsed.country]

\* lines 305-306
WithSocialLinks(place, fetch) == extract_social_links(place.website, fetch, place)

\* lines 244-310 after the text lookups.  The result is [raised, place]: raised
\* is TRUE when an exception leaves extract_place.
ExtractWith(t, page, source, index, listing_url) ==
    IF Raise \in {t.name, t.address, t.phone, t.category}
    THEN [raised |-> TRUE, place |-> NewPlace]
    ELSE [raised |-> FALSE,
          place |-> Normalize(WithSocialLinks(
                        parse_weekly_hours(page.hours,
                            FillPlace(t, CoordinatesOf(listing_url),
                                      AddressFields(t.address), page, source,
                                      index, listing_url)),
                        page.fetch))]

\* lines 244-310
extract_place(page, source, index, listing_url) ==
    ExtractWith(TextLookups(page), page, source, index, listing_url)

(***************************************************************************)
(* Specification of the record extractor: Init draws the page, the        *)
(* listing reference and the index, the one action applies extract_place.  *)
(***************************************************************************)
PlacePrefix == <<"/", "m", "a", "p", "s", "/", "p", "l", "a", "c", "e", "/">>

Page(n, a, ph, c, rt, rv, w, h, f) ==
    [name |-> n, address |-> a, phone |-> ph, category |-> c, rating |-> rt,
     reviews |-> rv, website |-> w, hours |-> h, fetch |-> f]

MondayRow(t) == [day |-> <<"M", "o", "n", "d", "a", "y">>, times |-> t]

PageHours ==
    { Widget(TRUE, <<>>, <<>>, FALSE),
      Widget(FALSE, <<>>, <<>>, FALSE),
      Widget(FALSE, <<MondayRow(<<"9", "-", "5">>), MondayRow(Raise)>>, <<>>, FALSE) }

PageFetches ==
    { [kind |-> "raise", found |-> {}],
      [kind |-> "status", found |-> Networks],
      [kind |-> "ok", found |-> {"instagram_url", "x_url"}] }

ExtractPages ==
    { Page(n, a, ph, c, rt, rv, w, h, f) :
        n \in {Absent, Raise, <<" ">>, <<"A">>},
        a \in {Absent, Raise, <<"K", " ", "7", "5", "4", "0", ",", "K">>},
        ph \in {None, <<"5">>},
        c \in {Raise, <<"A", " ">>},
        rt \in {Absent, Raise, <<"4", ".", "5", " ", "s">>, <<".">>},
        rv \in {Absent, Raise, <<"1", ",", "2", " ", "r">>, <<",">>},
        w \in {Absent, Raise, None, <<"/", "a">>},
        h \in PageHours,
        f \in PageFetches }

ExtractRefs ==
    { PlacePrefix \o <<"a">>,
      PlacePrefix \o <<"a", "@", "1", ".", "5", ",", "-", "2">>,
      PlacePrefix \o <<"@", "1", ".", "5", ".", ",", "2", "!", "3", "d", "1", "!", "4", "d", "2">> }

InitExtract ==
    /\ RunIdle
    /\ fpc = "in"
    /\ arg \in {[page |-> pg, source |-> <<"q">>, index |-> 1, listing_url |-> r] :
                    pg \in ExtractPages, r \in ExtractRefs}
    /\ res = None

ApplyExtractPlace ==
    /\ fpc = "in"
    /\ res' = extract_place(arg.page, arg.source, arg.index, arg.listing_url)
    /\ fpc' = "out"
    /\ UNCHANGED <<arg, pc, stop, max_listings, user_input, listing_urls,
                   no_new_rounds, idx, places, last_results, returned, shown,
                   error, logs, pages, seen, observed, pressed>>

NextExtract == ApplyExtractPlace

SpecExtract == InitExtract /\ [][NextExtract]_vars

\* what a lookup leaves in a text field before the final normalisation is blank
BlankLookup(el) == el \in {Absent, Raise, None} \/ Strip(el) = <<>>

\* C8: extract_place returns a record without raising for every combination
\* of present, absent and failing sub-elements, and every string field of the
\* record is non-blank: a field whose lookup gave nothing holds "-".
C8_NeverRaisesNoBlankField ==
    fpc = "out" =>
        /\ ~res.raised
        /\ \A f \in StringFields : res.place[f] # <<>> /\ Strip(res.place[f]) # <<>>
        /\ BlankLookup(arg.page.name) => res.place.name = Dash
        /\ BlankLookup(arg.page.address) =>
               /\ res.place.address = Dash
               /\ res.place.city = Dash
               /\ res.place.zip_code = Dash
               /\ res.place.country = Dash
        /\ BlankLookup(arg.page.phone) => res.place.phone_number = Dash
        /\ BlankLookup(arg.page.category) => res.place.category = Dash
        /\ BlankLookup(arg.page.website) =>
               /\ res.place.website = Dash
               /\ \A n \in Networks : res.place[n] = Dash
        /\ arg.page.hours.table_fails => \A d \in DayFields : res.place[d] = Dash

\* a page whose name lookup raises, whose hours widget fails and whose website
\* cannot be fetched still gave a record
C8_Witness ==
    /\ fpc = "out"
    /\ arg.page.name = Raise
    /\ arg.page.category = Raise
    /\ arg.page.hours.table_fails
    /\ arg.page.website = <<"/", "a">>
    /\ arg.page.fetch.kind = "raise"
    /\ ~res.raised
    /\ res.place.name = Dash
    /\ res.place.monday_hours = Dash
    /\ res.place.website = Https \o <<"a">>
    /\ res.place.instagram_url = Dash

(***************************************************************************)
(* The run: the Start handler, scrape_places_streamlit and the Stop        *)
(* handler.  pc is the position of the script:                             *)
(*   idle          before Start is pressed                                 *)
(*   goto_search   line 370, page.goto(url)                                *)
(*   discover      line 379, top of the URL discovery loop                 *)
(*   scan          lines 384-446, one round of scrolling and collecting    *)
(*   scrape_start  lines 450-456                                           *)
(*   loop          line 459, head of the per-listing loop                  *)
(*   goto          lines 463-464                                           *)
(*   extract       lines 465-467                                           *)
(*   publish       lines 470-471                                           *)
(*   stopcheck     line 474,  stopcheck2  line 493                         *)
(*   close         lines 498-499                                           *)
(*   show          lines 614-618                                           *)
(*   done, failed  the script run is over (failed: lines 620-622)          *)
(***************************************************************************)
MAX_NO_NEW_ROUNDS == 5

NoTable == [set |-> FALSE, rows |-> <<>>]
Table(rs) == [set |-> TRUE, rows |-> rs]

\* the listing references the feed can present, and what get_attribute("href") can give
RefAt(k) == PlacePrefix \o <<Lowr[k]>>
Refs == {RefAt(k) : k \in 1..NumRefs}
CardLists == UNION {[1..n -> Refs \cup {None}] : n \in 0..MaxCards}

\* a listing page on which every lookup fails or finds nothing
FailingPage ==
    Page(Raise, Absent, None, Raise, Absent, Raise, Absent,
         Widget(TRUE, <<>>, <<>>, FALSE), [kind |-> "raise", found |-> {}])

\* a listing page on which every lookup finds its element
FullPage ==
    Page(<<"A">>, <<"K", " ", "7", "5", "4", "0", ",", "K">>, <<"5">>, <<"A", " ">>,
         <<"4", ".", "5", " ", "s">>, <<"1", ",", "2", " ", "r">>, <<"/", "a">>,
         Widget(FALSE, <<MondayRow(<<"9", "-", "5">>)>>, <<>>, FALSE),
         [kind |-> "ok", found |-> {"instagram_url", "x_url"}])

\* line 463: the page that page.goto(link) loads is a function of the link
ListingPage(link) == IF link = RefAt(1) THEN FailingPage ELSE FullPage

should_stop_Never(flag) == FALSE

\* lines 523-524: should_stop() reads st.session_state.stop
should_stop(flag) == flag

IsNewHref_NoDedup(href, urls) == href # None /\ href # <<>>

\* line 403: href and href not in listing_urls
IsNewHref(href, urls) ==
    /\ href # None
    /\ href # <<>>
    /\ \A i \in 1..Len(urls) : urls[i] # href

LimitReached_Strict(urls, max) == max > 0 /\ Len(urls) > max

\* lines 408 and 412: max_listings > 0 and len(listing_urls) >= max_listings
LimitReached(urls, max) == max > 0 /\ Len(urls) >= max

\* lines 400-409: the for loop over the cards, with its break
RECURSIVE CollectCards(_, _, _, _)
CollectCards(urls, added, cards, max) ==
    IF cards = <<>> THEN [urls |-> urls, added |-> added]
    ELSE IF IsNewHref(Head(cards), urls)
    THEN LET more == Append(urls, Head(cards))
         IN  IF LimitReached(more, max)
             THEN [urls |-> more, added |-> added + 1]
             ELSE CollectCards(more, added + 1, Tail(cards), max)
    ELSE CollectCards(urls, added, Tail(cards), max)

\* lines 418-430 and 434-446: what a round that did not reach the limit does
\* with the stale counter; moved is the result of go_to_next_results_page
StaleStep_LateThreshold(rounds, added, moved) ==
    IF added = 0
    THEN IF rounds + 1 > MAX_NO_NEW_ROUNDS
         THEN IF ~moved
              THEN [rounds |-> rounds + 1, paginated |-> TRUE, break |-> TRUE]
              ELSE [rounds |-> 0, paginated |-> TRUE, break |-> FALSE]
         ELSE [rounds |-> rounds + 1, paginated |-> FALSE, break |-> FALSE]
    ELSE [rounds |-> 0, paginated |-> FALSE, break |-> FALSE]

StaleStep(rounds, added, moved) ==
    IF added = 0
    THEN IF rounds + 1 >= MAX_NO_NEW_ROUNDS
         THEN IF ~moved
              THEN [rounds |-> rounds + 1, paginated |-> TRUE, break |-> TRUE]
              ELSE [rounds |-> 0, paginated |-> TRUE, break |-> FALSE]
         ELSE [rounds |-> rounds + 1, paginated |-> FALSE, break |-> FALSE]
    ELSE [rounds |-> 0, paginated |-> FALSE, break |-> FALSE]

\* history: the references of cards that seen does not hold yet, first occurrence only
NewlySeen(cards, old) ==
    LET keep(i) == /\ cards[i] # None
                   /\ \A j \in 1..Len(old) : old[j] # cards[i]
                   /\ \A j \in 1..(i - 1) : cards[j] # cards[i]
        F[i \in 0..Len(cards)] ==
            IF i = 0 THEN <<>>
            ELSE IF keep(i) THEN Append(F[i - 1], cards[i]) ELSE F[i - 1]
    IN  F[Len(cards)]

\* line 618: what an earlier run of the session, of one listing, left in
\* session_state["last_results"]; the Start handler does not clear it
EarlierResults ==
    Table(<<extract_place(ListingPage(RefAt(1)), <<"q">>, 1, RefAt(1)).place>>)

Init ==
    /\ pc = "idle"
    /\ stop = FALSE
    /\ max_listings \in 0..MaxListings
    /\ user_input \in {<<" ">>, <<"q", " ">>}
    /\ listing_urls = <<>>
    /\ no_new_rounds = 0
    /\ idx = 0
    /\ places = <<>>
    /\ last_results \in {NoTable, EarlierResults}
    /\ returned = NoTable
    /\ shown = NoTable
    /\ error = FALSE
    /\ logs = {}
    /\ pages = 0
    /\ seen = <<>>
    /\ observed = <<>>
    /\ pressed = FALSE
    /\ arg = None
    /\ res = None
    /\ fpc = "off"

\* lines 596-603: the Start button
Start ==
    /\ pc = "idle"
    /\ stop' = FALSE
    /\ pressed' = FALSE
    /\ IF Strip(user_input) = <<>>
       THEN pc' = "done" /\ logs' = {}
       ELSE pc' = "goto_search" /\ logs' = {"launching"}
    /\ UNCHANGED <<max_listings, user_input, listing_urls, no_new_rounds, idx,
                   places, last_results, returned, shown, error, pages, seen,
                   observed, arg, res, fpc>>

\* lines 620-622: an exception reaches the Start handler
Fatal ==
    /\ pc' = "failed"
    /\ error' = TRUE
    /\ logs' = logs \cup {"fatal"}
    /\ UNCHANGED <<stop, max_listings, user_input, listing_urls, no_new_rounds,
                   idx, places, last_results, returned, shown, pages, seen,
                   observed, pressed, arg, res, fpc>>

\* lines 333-377: the browser opens the search page
OpenSearch ==
    /\ pc = "goto_search"
    /\ pc' = "discover"
    /\ places' = <<>>
    /\ listing_urls' = <<>>
    /\ no_new_rounds' = 0
    /\ UNCHANGED <<stop, max_listings, user_input, idx, last_results, returned,
                   shown, error, logs, pages, seen, observed, pressed, arg, res, fpc>>

\* line 370: page.goto(url) raises
OpenSearchFails ==
    /\ pc = "goto_search"
    /\ Fatal

\* lines 379-382
DiscoverTop ==
    /\ pc = "discover"
    /\ observed' = IF stop THEN Append(observed, <<"discover", 0>>) ELSE observed
    /\ IF should_stop(stop)
       THEN pc' = "scrape_start" /\ logs' = logs \cup {"stop_collecting"}
       ELSE pc' = "scan" /\ UNCHANGED logs
    /\ UNCHANGED <<stop, max_listings, user_input, listing_urls, no_new_rounds,
                   idx, places, last_results, returned, shown, error, pages,
                   seen, pressed, arg, res, fpc>>

\* lines 384-446: one round; cards is what the card locator yields, moved the
\* result of go_to_next_results_page if it is called
Scan ==
    /\ pc = "scan"
    /\ \E cards \in CardLists, moved \in BOOLEAN :
         LET got == CollectCards(listing_urls, 0, cards, max_listings)
             st == StaleStep(no_new_rounds, got.added, moved)
         IN  /\ moved => (st.paginated /\ pages < MaxPages)
             /\ listing_urls' = got.urls
             /\ seen' = seen \o NewlySeen(cards, seen)
             /\ IF LimitReached(got.urls, max_listings)
                THEN /\ pc' = "scrape_start"
                     /\ logs' = logs \cup {"limit_reached"}
                     /\ UNCHANGED <<no_new_rounds, pages>>
                ELSE /\ no_new_rounds' = st.rounds
                     /\ pages' = IF st.paginated /\ ~st.break THEN pages + 1 ELSE pages
                     /\ pc' = IF st.break THEN "scrape_start" ELSE "discover"
                     /\ logs' = logs
                          \cup (IF got.added = 0 THEN {"no_new_cards"} ELSE {})
                          \cup (IF st.paginated /\ ~st.break THEN {"next_page"} ELSE {})
                          \cup (IF st.break THEN {"no_more_pages"} ELSE {})
    /\ UNCHANGED <<stop, max_listings, user_input, idx, places, last_results,
                   returned, shown, error, observed, pressed, arg, res, fpc>>

\* lines 399-402: cards.count() or get_attribute raises
ScanFails ==
    /\ pc = "scan"
    /\ Fatal

\* lines 450-456
ScrapeStart ==
    /\ pc = "scrape_start"
    /\ observed' = IF stop THEN Append(observed, <<"reset", 0>>) ELSE observed
    /\ stop' = FALSE
    /\ logs' = logs \cup {"start_scraping"}
                    \cup (IF stop THEN {"stopped_collecting"} ELSE {})
    /\ places' = <<>>
    /\ idx' = 0
    /\ pc' = "loop"
    /\ UNCHANGED <<max_listings, user_input, listing_urls, no_new_rounds,
                   last_results, returned, shown, error, pages, seen, pressed,
                   arg, res, fpc>>

\* lines 459-461: enumerate(listing_urls, 1) and the cap
LoopHead ==
    /\ pc = "loop"
    /\ IF idx >= Len(listing_urls)
       THEN pc' = "close" /\ UNCHANGED idx
       ELSE /\ idx' = idx + 1
            /\ pc' = IF max_listings > 0 /\ idx + 1 > max_listings
                     THEN "close" ELSE "goto"
    /\ UNCHANGED <<stop, max_listings, user_input, listing_urls, no_new_rounds,
                   places, last_results, returned, shown, error, logs, pages,
                   seen, observed, pressed, arg, res, fpc>>

\* lines 463-464
GotoListing ==
    /\ pc = "goto"
    /\ pc' = "extract"
    /\ UNCHANGED <<stop, max_listings, user_input, listing_urls, no_new_rounds,
                   idx, places, last_results, returned, shown, error, logs,
                   pages, seen, observed, pressed, arg, res, fpc>>

\* line 463: page.goto(link) raises
GotoListingFails ==
    /\ pc = "goto"
    /\ Fatal

\* lines 466-467, or the exception of line 465 on its way to the Start handler
AppendPlace(r) ==
    IF r.raised
    THEN Fatal
    ELSE /\ places' = Append(places, r.place)
         /\ logs' = logs \cup {"scraped"}
         /\ pc' = "publish"
         /\ UNCHANGED <<stop, max_listings, user_input, listing_urls,
                        no_new_rounds, idx, last_results, returned, shown,
                        error, pages, seen, observed, pressed, arg, res, fpc>>

\* lines 465-467
Extract ==
    /\ pc = "extract"
    /\ AppendPlace(extract_place(ListingPage(listing_urls[idx]), Strip(user_input),
                                 idx, listing_urls[idx]))

\* lines 470-471
Publish ==
    /\ pc = "publish"
    /\ last_results' = Table(places)
    /\ pc' = "stopcheck"
    /\ UNCHANGED <<stop, max_listings, user_input, listing_urls, no_new_rounds,
                   idx, places, returned, shown, error, logs, pages, seen,
                   observed, pressed, arg, res, fpc>>

\* lines 474-476
StopCheck ==
    /\ pc = "stopcheck"
    /\ observed' = IF stop THEN Append(observed, <<"loop", Len(places)>>) ELSE observed
    /\ IF should_stop(stop)
       THEN pc' = "close" /\ logs' = logs \cup {"user_stop"}
       ELSE pc' = "stopcheck2" /\ UNCHANGED logs
    /\ UNCHANGED <<stop, max_listings, user_input, listing_urls, no_new_rounds,
                   idx, places, last_results, returned, shown, error, pages,
                   seen, pressed, arg, res, fpc>>

\* lines 493-495
StopCheck2 ==
    /\ pc = "stopcheck2"
    /\ observed' = IF stop THEN Append(observed, <<"loop", Len(places)>>) ELSE observed
    /\ IF should_stop(stop)
       THEN pc' = "close" /\ logs' = logs \cup {"user_stop"}
       ELSE pc' = "loop" /\ UNCHANGED logs
    /\ UNCHANGED <<stop, max_listings, user_input, listing_urls, no_new_rounds,
                   idx, places, last_results, returned, shown, error, pages,
                   seen, pressed, arg, res, fpc>>

\* lines 498-499
Close ==
    /\ pc = "close"
    /\ returned' = Table(places)
    /\ pc' = "show"
    /\ UNCHANGED <<stop, max_listings, user_input, listing_urls, no_new_rounds,
                   idx, places, last_results, shown, error, logs, pages, seen,
                   observed, pressed, arg, res, fpc>>

\* lines 614-618
ShowResults ==
    /\ pc = "show"
    /\ shown' = returned
    /\ last_results' = returned
    /\ pc' = "done"
    /\ UNCHANGED <<stop, max_listings, user_input, listing_urls, no_new_rounds,
                   idx, places, returned, error, logs, pages, seen, observed,
                   pressed, arg, res, fpc>>

\* lines 625-631: the Stop button, pressed while the flag is down
PressStop ==
    /\ pc # "idle"
    /\ ~stop
    /\ stop' = TRUE
    /\ pressed' = TRUE
    /\ logs' = logs \cup {"stop_pressed"}
    /\ shown' = IF last_results.set THEN last_results ELSE shown
    /\ UNCHANGED <<pc, max_listings, user_input, listing_urls, no_new_rounds,
                   idx, places, last_results, returned, error, pages, seen,
                   observed, arg, res, fpc>>

ScriptStep ==
    \/ Start
    \/ OpenSearch
    \/ DiscoverTop
    \/ Scan
    \/ ScrapeStart
    \/ LoopHead
    \/ GotoListing
    \/ Extract
    \/ Publish
    \/ StopCheck
    \/ StopCheck2
    \/ Close
    \/ ShowResults

Next ==
    \/ ScriptStep
    \/ OpenSearchFails
    \/ ScanFails
    \/ GotoListingFails
    \/ PressStop

Spec == Init /\ [][Next]_vars

\* the discovery loop runs on: its next step, when possible, is eventually taken
DiscoveryStep == DiscoverTop \/ Scan

FairSpec == Spec /\ WF_vars(DiscoveryStep)

(***************************************************************************)
(* Claims about the run                                                    *)
(***************************************************************************)
NoDup(q) == \A i, j \in 1..Len(q) : i # j => q[i] # q[j]

InDiscovery == pc \in {"discover", "scan"}

Returned == pc \in {"show", "done"} /\ returned.set

\* the first n elements of q, all of q when it is shorter
Prefix(q, n) == SubSeq(q, 1, IF Len(q) < n THEN Len(q) ELSE n)

\* C1: with max_listings = N > 0 the collected list is at every moment the
\* first-seen, duplicate-free references the feed has presented, cut at N; and
\* once the feed has presented N unique references discovery is over with
\* exactly those N.
C1_ExactlyNInFirstSeenOrder ==
    max_listings > 0 =>
        /\ listing_urls = Prefix(seen, max_listings)
        /\ NoDup(listing_urls)
        /\ Len(seen) >= max_listings =>
              /\ ~InDiscovery
              /\ Len(listing_urls) = max_listings

\* discovery with N = 2 ended in a round in which the feed showed a third reference
C1_Witness ==
    /\ pc = "scrape_start"
    /\ max_listings = 2
    /\ Len(seen) = 3
    /\ Len(listing_urls) = 2
    /\ "limit_reached" \in logs

\* C2: with max_listings = 0 discovery is left from a round only at a failed
\* next-page attempt, made in the 5th consecutive round without a new
\* reference; a round that goes on leaves the counter below 5; the collected
\* list is exactly the references seen; and discovery eventually ends.
C2_UnlimitedEndsAtFailedPagination ==
    /\ [](max_listings = 0 => listing_urls = seen)
    /\ [][(max_listings = 0 /\ pc = "scan" /\ pc' = "scrape_start") =>
              /\ no_new_rounds = MAX_NO_NEW_ROUNDS - 1
              /\ no_new_rounds' = MAX_NO_NEW_ROUNDS
              /\ listing_urls' = listing_urls
              /\ "no_more_pages" \in logs']_vars
    /\ [][(max_listings = 0 /\ pc = "scan" /\ pc' = "discover") =>
              no_new_rounds' < MAX_NO_NEW_ROUNDS]_vars
    /\ (max_listings = 0 /\ InDiscovery) ~> ~InDiscovery

\* unlimited discovery ended at a failed next-page attempt with two references
C2_Witness ==
    /\ pc = "scrape_start"
    /\ max_listings = 0
    /\ "no_more_pages" \in logs
    /\ no_new_rounds = MAX_NO_NEW_ROUNDS
    /\ Len(listing_urls) = 2
    /\ listing_urls = seen
    /\ ~pressed

AllNormalized(rows) ==
    \A k \in 1..Len(rows) : \A f \in StringFields : Strip(rows[k][f]) # <<>>

\* C3 as stated: once the run has read the stop flag as true (in discovery or
\* in the per-listing loop), the returned records are exactly those completed
\* before that read, and every returned record is normalised.
C3_OnlyRecordsBeforeObservation ==
    (Returned /\ observed # <<>>) =>
        /\ Len(returned.rows) = observed[1][2]
        /\ AllNormalized(returned.rows)

LoopObservations == SelectSeq(observed, LAMBDA o : o[1] = "loop")

\* C3 amended: a stop flag read as true in the per-listing loop ends the run
\* with exactly the records completed at that read; a stop flag read as true
\* during URL discovery (lines 380, 451) only ends discovery and is cleared:
\* the listings collected so far are then all extracted, unless a later stop
\* is read in the loop; every returned record is normalised.
C3_LoopStopKeepsCompleted ==
    Returned =>
        /\ returned.rows = places
        /\ AllNormalized(returned.rows)
        /\ IF LoopObservations # <<>>
           THEN /\ Len(LoopObservations) = 1
                /\ Len(returned.rows) = LoopObservations[1][2]
           ELSE Len(returned.rows) = Len(listing_urls)

\* Stop was pressed during discovery and again during the first extraction
C3_Witness ==
    /\ pc = "done"
    /\ observed = << <<"discover", 0>>, <<"reset", 0>>, <<"loop", 1>> >>
    /\ Len(listing_urls) = 2
    /\ Len(returned.rows) = 1

\* C4: when an exception ends the run after k >= 1 records were completed, the
\* user is shown the failure message together with those k records.
C4_FailureShowsPartialResults ==
    (pc = "failed" /\ Len(places) >= 1) =>
        /\ error
        /\ shown.set
        /\ shown.rows = places

\* C5: with max_listings > 0 neither the collected references nor the
\* accumulated records ever exceed max_listings; and a run that collected
\* max_listings references and returns without Stop having been pressed
\* returns exactly max_listings records.
C5_CapRespected ==
    max_listings > 0 =>
        /\ Len(listing_urls) <= max_listings
        /\ Len(places) <= max_listings
        /\ (Returned /\ ~pressed /\ Len(listing_urls) >= max_listings) =>
               Len(returned.rows) = max_listings

\* a run capped at 2 returned 2 records although the feed showed 3 references
C5_Witness ==
    /\ pc = "done"
    /\ max_listings = 2
    /\ ~pressed
    /\ Len(seen) = 3
    /\ Len(returned.rows) = 2

\* C6: the collected list holds no reference twice, the k-th record carries
\* the k-th collected reference as listing_url, and no two records share one.
C6_UniqueListingUrls ==
    /\ NoDup(listing_urls)
    /\ Len(places) <= Len(listing_urls)
    /\ \A k \in 1..Len(places) : places[k].listing_url = listing_urls[k]
    /\ NoDup([k \in 1..Len(places) |-> places[k].listing_url])

\* two records were accumulated after a round that showed nothing new
C6_Witness ==
    /\ pc = "publish"
    /\ Len(places) = 2
    /\ "no_new_cards" \in logs
    /\ places[2].listing_url = listing_urls[2]

\* C7: the s_no values are strictly increasing along the records, and the
\* record of the k-th discovered reference has s_no = k.
C7_SerialNumbers ==
    /\ \A i, j \in 1..Len(places) : i < j => places[i].s_no < places[j].s_no
    /\ \A k \in 1..Len(places) :
           places[k].listing_url = listing_urls[k] => places[k].s_no = k

\* three records numbered 1, 2, 3
C7_Witness ==
    /\ Len(places) = 3
    /\ places[1].s_no = 1
    /\ places[3].s_no = 3

\* line 460: the per-listing loop has a further listing to go to
HasNextListing ==
    /\ idx < Len(listing_urls)
    /\ ~(max_listings > 0 /\ idx + 1 > max_listings)

\* C11 as stated: a stop flag that is true when an iteration of the
\* per-listing loop begins ends the loop there, with no navigation, no
\* extraction and the records unchanged; and after a stop that ended URL
\* discovery no listing is extracted.
C11_StopCheckedAtLoopTop ==
    /\ [][(pc = "loop" /\ stop) => (pc' = "close" /\ places' = places)]_vars
    /\ []((observed # <<>> /\ observed[1][1] # "loop") => places = <<>>)

\* C11 amended: the per-listing loop reads the stop flag only after an
\* extraction (lines 474, 493). The loop top goes on to the next listing
\* whenever one is left under the cap, whatever the flag; a listing that is
\* navigated to is extracted and appended before the flag is read; a flag
\* read as true then ends the loop with the records unchanged; the flag that
\* ended URL discovery is cleared before the first iteration (line 452); and
\* the records returned are the records accumulated.
C11_StopReadOnlyAfterExtraction ==
    /\ [][(pc = "loop" /\ pc' # "loop") =>
              /\ pc' = (IF HasNextListing THEN "goto" ELSE "close")
              /\ places' = places]_vars
    /\ [][(pc = "extract" /\ pc' # "extract") =>
              /\ pc' = "publish"
              /\ Len(places') = Len(places) + 1]_vars
    /\ [][(pc \in {"stopcheck", "stopcheck2"} /\ stop) =>
              /\ pc' = "close"
              /\ places' = places]_vars
    /\ [][(pc \in {"stopcheck", "stopcheck2"} /\ pc' = "close") => stop]_vars
    /\ [][(pc = "scrape_start" /\ pc' = "loop") => ~stop']_vars
    /\ [](Returned => returned.rows = places)

\* the flag is up as the second iteration begins and a listing is left
C11_Witness ==
    /\ pc = "loop"
    /\ stop
    /\ Len(places) = 1
    /\ HasNextListing

\* a discovery round that ran to its end: it went back to the loop top or
\* left the loop, without an exception
Round == pc = "scan" /\ pc' \in {"discover", "scrape_start"}

FoundNew == listing_urls' # listing_urls

ReachedLimit == LimitReached(listing_urls', max_listings)

\* go_to_next_results_page was called in the round: it moved to a further
\* page, or it failed and the round left the loop below the limit
NextPageAttempt ==
    \/ pages' = pages + 1
    \/ pc' = "scrape_start" /\ ~ReachedLimit

\* the round is the 5th in a row without a new reference
FifthStaleRound == ~FoundNew /\ no_new_rounds = MAX_NO_NEW_ROUNDS - 1

\* the counter counts the rounds in a row without a new reference: a stale
\* round adds one unless it moved to a further page, which sets it to 0
CountsStaleRounds ==
    (Round /\ ~FoundNew) =>
        no_new_rounds' = (IF pages' = pages + 1 THEN 0 ELSE no_new_rounds + 1)

\* C12 as stated: in both modes a next-page attempt is made in a round if and
\* only if the round is the 5th consecutive one without a new reference;
\* every round that finds a new reference sets the counter to 0; the counter
\* is always within 0..5.
C12_EveryNewReferenceResets ==
    /\ [][Round => (NextPageAttempt <=> FifthStaleRound)]_vars
    /\ [][CountsStaleRounds]_vars
    /\ [][(Round /\ FoundNew) => no_new_rounds' = 0]_vars
    /\ [](no_new_rounds \in 0..MAX_NO_NEW_ROUNDS)

\* C12 amended: as stated, except that the round that finds a new reference
\* and thereby reaches max_listings leaves the loop at line 414 without
\* touching the counter; every other round that finds a new reference sets
\* it to 0.
C12_NewReferenceResetsUnlessLimit ==
    /\ [][Round => (NextPageAttempt <=> FifthStaleRound)]_vars
    /\ [][CountsStaleRounds]_vars
    /\ [][(Round /\ FoundNew) =>
              no_new_rounds' = (IF ReachedLimit THEN no_new_rounds ELSE 0)]_vars
    /\ [][(Round /\ ReachedLimit) => FoundNew]_vars
    /\ [](no_new_rounds \in 0..MAX_NO_NEW_ROUNDS)

\* a run capped at 2 moved to a further page after five stale rounds, had two
\* more stale rounds and then reached the cap
C12_Witness ==
    /\ pc = "scrape_start"
    /\ max_listings = 2
    /\ pages = 1
    /\ "next_page" \in logs
    /\ "limit_reached" \in logs
    /\ no_new_rounds = 2

\* lines 459-499: the per-listing loop, up to the return
ExtractionPhase ==
    pc \in {"loop", "goto", "extract", "publish", "stopcheck", "stopcheck2", "close"}

IsPrefix(p, q) == Len(p) <= Len(q) /\ SubSeq(q, 1, Len(p)) = p

\* C13: at the stop checks of the per-listing loop the snapshot holds exactly
\* the records accumulated so far; in every state of the extraction phase the
\* snapshot is a prefix of the accumulated records that lacks at most the last
\* one; and the records already appended are never changed or removed.
C13_SnapshotFollowsRecords ==
    /\ [](pc \in {"stopcheck", "stopcheck2"} => last_results = Table(places))
    /\ [](ExtractionPhase =>
              /\ IsPrefix(last_results.rows, places)
              /\ Len(places) - Len(last_results.rows) <= 1)
    /\ [][(ExtractionPhase /\ ExtractionPhase') => IsPrefix(places, places')]_vars

====
